---- MODULE Spec2Model ----
(***************************************************************************)
(* Model of generate_catalog.py: placeholder substitution in a template    *)
(* slide, slide duplication per page of products, and aspect-preserving    *)
(* image placement.                                                        *)
(*                                                                         *)
(* Text is a sequence of symbols.  A symbol is one character, except that  *)
(* a field-class name ("name", "capacity", ...) is written as one symbol   *)
(* and the non-ASCII characters of the source have ASCII stand-ins:        *)
(* "-" for the full-width dash, "YEN" for the yen sign, "TAXINCL" for the  *)
(* tax-included suffix.                                                    *)
(***************************************************************************)
EXTENDS Integers, Sequences, FiniteSets, TLC

VARIABLES
    \* --- generate_catalog ---
    pc,             \* position in generate_catalog
    products,       \* rows returned by load_data, in sheet order
    supplier_name,  \* group label returned by load_data
    template,       \* the slide stored in the template file
    slides,         \* prs.slides
    page_idx,       \* loop variable of the page loop
    page_products,  \* products.iloc[page_idx:page_idx + PRODUCTS_PER_PAGE]
    cur,            \* index in slides of the local variable `slide`
    replacements,   \* replacement dict of the current page (insertion order)
    img_idx,        \* idx of the image loop
    placed,         \* value returned by the last image call
    saved,          \* number of prs.save calls
    pageLog,        \* page_products of every page started so far
    \* --- replace_text_in_paragraph on its own ---
    par_pc, par_runs, par_map, par_out,
    \* --- the geometry of find_and_replace_image on its own ---
    fit_pc, box, img_size, fit

catalog_vars == <<pc, products, supplier_name, template, slides, page_idx,
                  page_products, cur, replacements, img_idx, placed, saved,
                  pageLog>>
par_vars == <<par_pc, par_runs, par_map, par_out>>
fit_vars == <<fit_pc, box, img_size, fit>>
vars == <<catalog_vars, par_vars, fit_vars>>

----------------------------------------------------------------------------
(* Bounds *)
MaxRecords == 5     \* longest record sequence
MaxRuns    == 3     \* most runs in a paragraph of the paragraph-level check
MaxDim     == 5     \* largest box / image side of the geometry check

(* Program constants *)
PRODUCTS_PER_PAGE == 2

----------------------------------------------------------------------------
(* Python string primitives the code uses *)

RECURSIVE Join(_)
\* ''.join(list)
Join(ss) == IF ss = <<>> THEN <<>> ELSE Head(ss) \o Join(Tail(ss))

\* key in text
Contains(s, old) ==
    \E i \in 0..(Len(s) - Len(old)) : SubSeq(s, i + 1, i + Len(old)) = old

RECURSIVE StrReplace(_, _, _)
\* text.replace(old, new) for a non-empty old: every non-overlapping
\* occurrence, found left to right, is replaced; the inserted text is not
\* scanned again by this call.
StrReplace(s, old, new) ==
    IF Len(s) < Len(old) \/ old = <<>> THEN s
    ELSE IF SubSeq(s, 1, Len(old)) = old
         THEN new \o StrReplace(SubSeq(s, Len(old) + 1, Len(s)), old, new)
         ELSE <<s[1]>> \o StrReplace(Tail(s), old, new)

----------------------------------------------------------------------------
(* Placeholder tokens *)

FieldClasses == <<"name", "capacity", "unit", "MOQ", "temp", "expiry",
                  "price", "msrp", "desc">>

DigitSym(d) == <<"0", "1", "2", "3", "4", "5", "6", "7", "8", "9">>[d + 1]

RECURSIVE Digits(_)
\* str(n) of a non-negative int
Digits(n) == IF n < 10 THEN <<DigitSym(n)>>
             ELSE Digits(n \div 10) \o <<DigitSym(n % 10)>>

\* f'{{{{name_{num}}}}}'
Tok(name, num) == <<"{", "{", name, "_">> \o Digits(num) \o <<"}", "}">>
SupplierTok == <<"{", "{", "supplier", "}", "}">>
ImageTok(num) == Tok("img", num)

----------------------------------------------------------------------------
(* replace_text_in_paragraph.  A paragraph is its sequence of run texts;   *)
(* a replacement dict is a sequence of <<key, value>> in insertion order.  *)

RECURSIVE ResolveText(_, _)
\* the loop over replacements.items()
ResolveText(text, repl) ==
    IF repl = <<>> THEN text
    ELSE LET key == Head(repl)[1]
             value == Head(repl)[2]
         IN ResolveText(IF Contains(text, key)
                        THEN StrReplace(text, key, value)
                        ELSE text,
                        Tail(repl))

\* a write-back that forgets to clear the other runs
WriteBackKeepRest(runs, new_text) ==
    IF Len(runs) > 0
    THEN [i \in 1..Len(runs) |-> IF i = 1 THEN new_text ELSE runs[i]]
    ELSE runs

\* writing new_text into runs[0] and clearing the other runs
WriteBack(runs, new_text) ==
    IF Len(runs) > 0
    THEN [i \in 1..Len(runs) |-> IF i = 1 THEN new_text ELSE <<>>]
    ELSE runs

replace_text_in_paragraph(runs, repl) ==
    LET full_text == Join(runs)
        new_text == ResolveText(full_text, repl)
    IN IF new_text # full_text THEN WriteBack(runs, new_text) ELSE runs

----------------------------------------------------------------------------
(* Cell values of the sheet: a string, a number, or NaN (empty cell) *)

Str(s) == [kind |-> "str", s |-> s, n |-> 0]
Num(n) == [kind |-> "num", s |-> <<>>, n |-> n]
NaN    == [kind |-> "nan", s |-> <<>>, n |-> 0]

isna(val) == val.kind = "nan"

\* str(val)
PyStr(val) == IF val.kind = "num" THEN Digits(val.n) ELSE val.s

DASH == <<"-">>

safe_str(val, default) == IF isna(val) THEN default ELSE PyStr(val)

RECURSIVE Commas(_)
\* f"{n:,}"
Commas(n) ==
    IF n < 1000 THEN Digits(n)
    ELSE LET r == n % 1000
         IN Commas(n \div 1000) \o <<",">>
            \o <<DigitSym(r \div 100), DigitSym((r \div 10) % 10), DigitSym(r % 10)>>

\* int(val) raises ValueError on a string that is not a number; the strings
\* of the modelled sheets are never numerals
IntRaises(val) == val.kind = "str"

format_price(val) ==
    IF isna(val) THEN DASH ELSE <<"YEN">> \o Commas(val.n)

msrp_str(val) ==
    IF ~isna(val) THEN format_price(val) \o <<"TAXINCL">> ELSE DASH

\* build_replacements raises when a price cell is not numeric
BuildRaises(product) ==
    \/ ~isna(product.price) /\ IntRaises(product.price)
    \/ ~isna(product.msrp) /\ IntRaises(product.msrp)

build_replacements(product, num, supplier) ==
    << <<SupplierTok, supplier>>,
       <<Tok("name", num), safe_str(product.name, DASH)>>,
       <<Tok("capacity", num), safe_str(product.capacity, DASH)>>,
       <<Tok("unit", num), safe_str(product.unit, DASH)>>,
       <<Tok("MOQ", num), safe_str(product.moq, DASH)>>,
       <<Tok("temp", num), safe_str(product.temp, DASH)>>,
       <<Tok("expiry", num), safe_str(product.expiry, DASH)>>,
       <<Tok("price", num), format_price(product.price)>>,
       <<Tok("msrp", num), msrp_str(product.msrp)>>,
       <<Tok("desc", num), safe_str(product.desc, <<>>)>> >>

----------------------------------------------------------------------------
(* dict operations on an ordered sequence of <<key, value>> *)

HasKey(d, k) == \E i \in 1..Len(d) : d[i][1] = k
Lookup(d, k) == d[CHOOSE i \in 1..Len(d) : d[i][1] = k][2]

\* d[k] = v : an existing key keeps its position
DictSet(d, k, v) ==
    IF HasKey(d, k)
    THEN [i \in 1..Len(d) |-> IF d[i][1] = k THEN <<k, v>> ELSE d[i]]
    ELSE Append(d, <<k, v>>)

RECURSIVE DictUpdate(_, _)
\* d.update(other)
DictUpdate(d, other) ==
    IF other = <<>> THEN d
    ELSE DictUpdate(DictSet(d, Head(other)[1], Head(other)[2]), Tail(other))

RECURSIVE UpdateFromProducts(_, _, _, _)
\* for idx, (_, product) in enumerate(page_products.iterrows()): update
UpdateFromProducts(d, page, idx, supplier) ==
    IF idx >= Len(page) THEN d
    ELSE UpdateFromProducts(
             DictUpdate(d, build_replacements(page[idx + 1], idx + 1, supplier)),
             page, idx + 1, supplier)

RECURSIVE BlankSlot2(_, _)
\* for key in [...]: replacements[f'{{{{{key}_2}}}}'] = ''
BlankSlot2(d, i) ==
    IF i > Len(FieldClasses) THEN d
    ELSE BlankSlot2(DictSet(d, Tok(FieldClasses[i], 2), <<>>), i + 1)

\* a page dict that leaves the second slot of a short page alone
PageReplacementsNoBlank(page, supplier) ==
    UpdateFromProducts(<< <<SupplierTok, supplier>> >>, page, 0, supplier)

\* the replacement dict of one page
PageReplacements(page, supplier) ==
    LET d1 == UpdateFromProducts(<< <<SupplierTok, supplier>> >>, page, 0, supplier)
    IN IF Len(page) < 2
       THEN DictSet(BlankSlot2(d1, 1), ImageTok(2), <<>>)
       ELSE d1

----------------------------------------------------------------------------
(* Slides.  A slide is the sequence of its shapes in tree order.  A shape  *)
(* is a text box (paras = its paragraphs), a table (paras = the paragraphs *)
(* of its cells, row by row) or a picture.                                 *)

TextBox(paras, l, t, w, h) ==
    [kind |-> "text", paras |-> paras, left |-> l, top |-> t,
     width |-> w, height |-> h, image |-> "none"]
Table(paras) ==
    [kind |-> "table", paras |-> paras, left |-> 0, top |-> 0,
     width |-> 100, height |-> 50, image |-> "none"]
Picture(image_data, l, t, w, h) ==
    [kind |-> "pic", paras |-> <<>>, left |-> l, top |-> t,
     width |-> w, height |-> h, image |-> image_data]

has_text_frame(shape) == shape.kind = "text"
has_table(shape) == shape.kind = "table"

replace_text_in_shape(shape, repl) ==
    IF has_text_frame(shape)
    THEN [shape EXCEPT !.paras =
            [i \in 1..Len(shape.paras) |-> replace_text_in_paragraph(shape.paras[i], repl)]]
    ELSE shape

replace_text_in_table(shape, repl) ==
    [shape EXCEPT !.paras =
        [i \in 1..Len(shape.paras) |-> replace_text_in_paragraph(shape.paras[i], repl)]]

\* the text replacement loop over slide.shapes
ReplaceTextInSlide(slide, repl) ==
    [i \in 1..Len(slide) |->
        IF has_table(slide[i]) THEN replace_text_in_table(slide[i], repl)
        ELSE replace_text_in_shape(slide[i], repl)]

\* the runs of all paragraphs of a shape, joined
ShapeText(shape) ==
    Join([i \in 1..Len(shape.paras) |-> Join(shape.paras[i])])

RemoveAt(s, i) == SubSeq(s, 1, i - 1) \o SubSeq(s, i + 1, Len(s))

----------------------------------------------------------------------------
(* Image placement *)

\* convert_image_for_pptx: a WebP file is re-encoded as PNG bytes
convert_image_for_pptx(image_path) ==
    IF image_path.ext = "webp"
    THEN [image_path EXCEPT !.ext = "png-bytes"]
    ELSE image_path

\* a fit that tests the aspect ratios the wrong way round
FitPictureSwapped(l, t, w, h, iw, ih) ==
    LET new_width  == IF iw * h > w * ih THEN (h * iw) \div ih ELSE w
        new_height == IF iw * h > w * ih THEN h ELSE (w * ih) \div iw
    IN [left |-> l + (w - new_width) \div 2,
        top |-> t + (h - new_height) \div 2,
        width |-> new_width, height |-> new_height]

\* The aspect-preserving fit.  img_aspect = iw / ih and placeholder_aspect =
\* w / h are quotients of positive integers, so img_aspect >
\* placeholder_aspect is iw * h > w * ih, int(w / img_aspect) is
\* (w * ih) \div iw and int(h * img_aspect) is (h * iw) \div ih.
\* The quotients are taken exactly.  Python computes them in binary floating
\* point, which gives the same integers for all sides below 47; for larger
\* sides a product whose exact value is an integer can come out one unit
\* short (box height 49, image 1 x 49: int(49 * (1 / 49)) = 0).
FitPicture(l, t, w, h, iw, ih) ==
    LET new_width  == IF iw * h > w * ih THEN w ELSE (h * iw) \div ih
        new_height == IF iw * h > w * ih THEN (w * ih) \div iw ELSE h
    IN [left |-> l + (w - new_width) \div 2,
        top |-> t + (h - new_height) \div 2,
        width |-> new_width, height |-> new_height]

\* the shapes the scan of slide.shapes stops at
Matches(slide, placeholder_text) ==
    {i \in 1..Len(slide) :
        has_text_frame(slide[i]) /\ Contains(ShapeText(slide[i]), placeholder_text)}

FirstMatch(slide, placeholder_text) ==
    CHOOSE i \in Matches(slide, placeholder_text) :
        \A j \in Matches(slide, placeholder_text) : i <= j

\* image = [id, ext, w, h] of an existing file, or NoFile
NoFile == [id |-> "none", ext |-> "none", w |-> 0, h |-> 0]

\* result: the slide afterwards and the value returned
find_and_replace_image(slide, placeholder_text, image_path) ==
    IF image_path = NoFile THEN [slide |-> slide, ret |-> FALSE]
    ELSE IF Matches(slide, placeholder_text) = {}
    THEN [slide |-> slide, ret |-> FALSE]
    ELSE LET i == FirstMatch(slide, placeholder_text)
             shape == slide[i]
             g == FitPicture(shape.left, shape.top, shape.width, shape.height,
                             image_path.w, image_path.h)
         IN [slide |-> Append(RemoveAt(slide, i),
                              Picture(convert_image_for_pptx(image_path),
                                      g.left, g.top, g.width, g.height)),
             ret |-> TRUE]

NO_IMAGE == <<"n", "o", " ", "i", "m", "a", "g", "e">>

replace_image_placeholder_with_text(slide, placeholder_text, replacement_text) ==
    IF Matches(slide, placeholder_text) = {}
    THEN [slide |-> slide, ret |-> FALSE]
    ELSE LET i == FirstMatch(slide, placeholder_text)
             fix(runs) ==
                 IF Contains(Join(runs), placeholder_text) /\ Len(runs) > 0
                 THEN [k \in 1..Len(runs) |->
                          IF k = 1
                          THEN StrReplace(Join(runs), placeholder_text, replacement_text)
                          ELSE <<>>]
                 ELSE runs
         IN [slide |-> [slide EXCEPT ![i].paras =
                          [k \in 1..Len(slide[i].paras) |-> fix(slide[i].paras[k])]],
             ret |-> TRUE]

\* duplicate_slide: a new slide (its layout adds no shapes of its own) that
\* receives a deep copy of every shape of prs.slides[slide_index]
duplicate_slide(prs, slide_index) ==
    LET source_slide == prs[slide_index + 1]
    IN Append(prs, [i \in 1..Len(source_slide) |-> source_slide[i]])

----------------------------------------------------------------------------
(* The sheets, image directories and templates the runs are drawn from *)

RowA == [id |-> "A", supplier |-> <<"S">>,
         name |-> Str(<<"a">>), capacity |-> Num(500), unit |-> Str(<<"g">>),
         moq |-> Num(12), temp |-> Str(<<"c">>), expiry |-> Str(<<"e">>),
         price |-> Num(1200), msrp |-> Num(1500), desc |-> Str(<<"d">>),
         files |-> {"png", "webp"}, img_w |-> 4, img_h |-> 2]
\* empty cells, no image file, and a cell whose text looks like a token
RowB == [id |-> "B", supplier |-> <<"S">>,
         name |-> Str(<<"b">>), capacity |-> NaN, unit |-> NaN,
         moq |-> NaN, temp |-> NaN, expiry |-> Str(Tok("name", 1)),
         price |-> NaN, msrp |-> NaN, desc |-> NaN,
         files |-> {}, img_w |-> 0, img_h |-> 0]
\* a price cell that is not a number
RowC == [id |-> "C", supplier |-> <<"S">>,
         name |-> Str(<<"c">>), capacity |-> Num(1), unit |-> Str(<<"g">>),
         moq |-> Num(1), temp |-> NaN, expiry |-> NaN,
         price |-> Str(<<"a", "s", "k">>), msrp |-> NaN, desc |-> NaN,
         files |-> {"jpg"}, img_w |-> 1, img_h |-> 1]
\* a WebP image in portrait format, a seven-digit price
RowD == [id |-> "D", supplier |-> <<"S">>,
         name |-> Str(<<"d">>), capacity |-> Str(<<"1", "L">>), unit |-> NaN,
         moq |-> Num(6), temp |-> Str(<<"f">>), expiry |-> NaN,
         price |-> Num(1234567), msrp |-> NaN, desc |-> Str(<<"w">>),
         files |-> {"webp"}, img_w |-> 1, img_h |-> 3]

Catalogue == {RowA, RowB, RowC, RowD}

\* the cells of the product table: one paragraph per field class and slot,
\* some with the token split over runs, some behind a label run
FieldCell(i, num) ==
    LET name == FieldClasses[i]
    IN CASE i % 3 = 1 -> << Tok(name, num) >>
         [] i % 3 = 2 -> << <<"{", "{", name>>, <<"_">> \o Digits(num), <<"}", "}">> >>
         [] OTHER     -> << <<"L", ":">>, Tok(name, num) >>

TableCells ==
    [k \in 1..(2 * Len(FieldClasses)) |->
        IF k <= Len(FieldClasses) THEN FieldCell(k, 1)
        ELSE FieldCell(k - Len(FieldClasses), 2)]

TitleBox == TextBox(<< << <<"{", "{">>, <<"supplier", "}">>, <<"}">> >>, << >> >>,
                    0, 0, 100, 10)

\* the intended layout: one standalone box per image token
TemplateA ==
    << TitleBox,
       Table(TableCells),
       TextBox(<< << ImageTok(1) >> >>, 10, 20, 6, 4),
       TextBox(<< << ImageTok(2) >> >>, 60, 20, 4, 6) >>

\* a layout with a caption box that mentions the first image token before
\* the standalone box, and the second image token in a table cell only
TemplateB ==
    << TitleBox,
       Table(Append(TableCells, << ImageTok(2) >>)),
       TextBox(<< << <<"P">>, ImageTok(1) >> >>, 10, 14, 6, 2),
       TextBox(<< << ImageTok(1) >> >>, 10, 20, 6, 4) >>

Templates == {TemplateA, TemplateB}

Min(a, b) == IF a < b THEN a ELSE b

----------------------------------------------------------------------------
(* generate_catalog *)

ParIdle == par_pc = "idle" /\ par_runs = <<>> /\ par_map = <<>> /\ par_out = <<>>
FitIdle == fit_pc = "idle" /\ box = <<>> /\ img_size = <<>> /\ fit = <<>>
CatalogIdle ==
    /\ pc = "idle" /\ products = <<>> /\ supplier_name = <<>>
    /\ template = <<>> /\ slides = <<>> /\ page_idx = 0
    /\ page_products = <<>> /\ cur = 0 /\ replacements = <<>>
    /\ img_idx = 0 /\ placed = <<>> /\ saved = 0 /\ pageLog = <<>>

NoCall == [call |-> "none", num |-> 0, ret |-> FALSE]

Init ==
    /\ products \in UNION {[1..n -> Catalogue] : n \in 0..MaxRecords}
    /\ supplier_name = IF Len(products) > 0 THEN products[1].supplier
                       ELSE <<"H", "A", "K">>
    /\ template \in Templates
    /\ pc = "start"
    /\ slides = <<>>
    /\ page_idx = 0
    /\ page_products = <<>>
    /\ cur = 0
    /\ replacements = <<>>
    /\ img_idx = 0
    /\ placed = NoCall
    /\ saved = 0
    /\ pageLog = <<>>
    /\ ParIdle /\ FitIdle

\* load_data has returned; an empty result ends the run
LoadData ==
    /\ pc = "start"
    /\ pc' = IF Len(products) = 0 THEN "empty" ELSE "open"
    /\ UNCHANGED <<products, supplier_name, template, slides, page_idx,
                   page_products, cur, replacements, img_idx, placed, saved,
                   pageLog>>

\* prs = Presentation(template_path)
OpenTemplate ==
    /\ pc = "open"
    /\ slides' = <<template>>
    /\ page_idx' = 0
    /\ pc' = "page"
    /\ UNCHANGED <<products, supplier_name, template, page_products, cur,
                   replacements, img_idx, placed, saved, pageLog>>

\* head of the page loop
PageLoop ==
    /\ pc = "page"
    /\ IF page_idx < Len(products)
       THEN /\ page_products' = SubSeq(products, page_idx + 1,
                                       Min(page_idx + PRODUCTS_PER_PAGE, Len(products)))
            /\ pageLog' = Append(pageLog, page_products')
            /\ pc' = "select"
       ELSE /\ pc' = "save"
            /\ UNCHANGED <<page_products, pageLog>>
    /\ UNCHANGED <<products, supplier_name, template, slides, page_idx, cur,
                   replacements, img_idx, placed, saved>>

\* page 0 uses the template slide itself
FirstPage ==
    /\ pc = "select"
    /\ page_idx = 0
    /\ cur' = 1
    /\ pc' = "build"
    /\ UNCHANGED <<products, supplier_name, template, slides, page_idx,
                   page_products, replacements, img_idx, placed, saved, pageLog>>

\* every later page duplicates slide 0
ClonedPage ==
    /\ pc = "select"
    /\ page_idx # 0
    /\ slides' = duplicate_slide(slides, 0)
    /\ cur' = Len(slides')
    /\ pc' = "build"
    /\ UNCHANGED <<products, supplier_name, template, page_idx,
                   page_products, replacements, img_idx, placed, saved, pageLog>>

\* the replacement dict of the page is built
BuildMap ==
    /\ pc = "build"
    /\ \A i \in 1..Len(page_products) : ~BuildRaises(page_products[i])
    /\ replacements' = PageReplacements(page_products, supplier_name)
    /\ pc' = "text"
    /\ UNCHANGED <<products, supplier_name, template, slides, page_idx,
                   page_products, cur, img_idx, placed, saved, pageLog>>

\* format_price raises: the exception leaves generate_catalog
BuildFails ==
    /\ pc = "build"
    /\ \E i \in 1..Len(page_products) : BuildRaises(page_products[i])
    /\ pc' = "failed"
    /\ UNCHANGED <<products, supplier_name, template, slides, page_idx,
                   page_products, cur, replacements, img_idx, placed, saved,
                   pageLog>>

\* text replacement over the shapes of the slide
TextReplace ==
    /\ pc = "text"
    /\ slides' = [slides EXCEPT ![cur] = ReplaceTextInSlide(@, replacements)]
    /\ img_idx' = 0
    /\ pc' = "image"
    /\ UNCHANGED <<products, supplier_name, template, page_idx,
                   page_products, cur, replacements, placed, saved, pageLog>>

\* the probe for <product_id>.jpg / .png / .webp
ImagePath(product) ==
    IF "jpg" \in product.files
    THEN [id |-> product.id, ext |-> "jpg", w |-> product.img_w, h |-> product.img_h]
    ELSE IF "png" \in product.files
    THEN [id |-> product.id, ext |-> "png", w |-> product.img_w, h |-> product.img_h]
    ELSE IF "webp" \in product.files
    THEN [id |-> product.id, ext |-> "webp", w |-> product.img_w, h |-> product.img_h]
    ELSE NoFile

\* one round of the image loop, an image file exists
PlaceImage ==
    /\ pc = "image"
    /\ img_idx < Len(page_products)
    /\ ImagePath(page_products[img_idx + 1]) # NoFile
    /\ LET r == find_and_replace_image(slides[cur], ImageTok(img_idx + 1),
                                       ImagePath(page_products[img_idx + 1]))
       IN /\ slides' = [slides EXCEPT ![cur] = r.slide]
          /\ placed' = [call |-> "find_and_replace_image", num |-> img_idx + 1,
                        ret |-> r.ret]
    /\ img_idx' = img_idx + 1
    /\ UNCHANGED <<pc, products, supplier_name, template, page_idx,
                   page_products, cur, replacements, saved, pageLog>>

\* one round of the image loop, no image file
NoImageText ==
    /\ pc = "image"
    /\ img_idx < Len(page_products)
    /\ ImagePath(page_products[img_idx + 1]) = NoFile
    /\ LET r == replace_image_placeholder_with_text(slides[cur],
                                                    ImageTok(img_idx + 1), NO_IMAGE)
       IN /\ slides' = [slides EXCEPT ![cur] = r.slide]
          /\ placed' = [call |-> "replace_image_placeholder_with_text",
                        num |-> img_idx + 1, ret |-> r.ret]
    /\ img_idx' = img_idx + 1
    /\ UNCHANGED <<pc, products, supplier_name, template, page_idx,
                   page_products, cur, replacements, saved, pageLog>>

\* a page loop that advances by one record instead of one page
PageDoneStepOne ==
    /\ pc = "image"
    /\ img_idx >= Len(page_products)
    /\ page_idx' = page_idx + 1
    /\ pc' = "page"
    /\ UNCHANGED <<products, supplier_name, template, slides, page_products,
                   cur, replacements, img_idx, placed, saved, pageLog>>

\* the page is finished, the loop variable advances
PageDone ==
    /\ pc = "image"
    /\ img_idx >= Len(page_products)
    /\ page_idx' = page_idx + PRODUCTS_PER_PAGE
    /\ pc' = "page"
    /\ UNCHANGED <<products, supplier_name, template, slides, page_products,
                   cur, replacements, img_idx, placed, saved, pageLog>>

\* a save that also runs when an exception is on its way out (try/finally)
SaveInFinally ==
    /\ pc \in {"save", "failed"}
    /\ saved = 0
    /\ saved' = saved + 1
    /\ pc' = IF pc = "save" THEN "done" ELSE "failed"
    /\ UNCHANGED <<products, supplier_name, template, slides, page_idx,
                   page_products, cur, replacements, img_idx, placed, pageLog>>

\* prs.save(output_path)
Save ==
    /\ pc = "save"
    /\ saved' = saved + 1
    /\ pc' = "done"
    /\ UNCHANGED <<products, supplier_name, template, slides, page_idx,
                   page_products, cur, replacements, img_idx, placed, pageLog>>

Next ==
    \/ (LoadData /\ UNCHANGED <<par_vars, fit_vars>>)
    \/ (OpenTemplate /\ UNCHANGED <<par_vars, fit_vars>>)
    \/ (PageLoop /\ UNCHANGED <<par_vars, fit_vars>>)
    \/ (FirstPage /\ UNCHANGED <<par_vars, fit_vars>>)
    \/ (ClonedPage /\ UNCHANGED <<par_vars, fit_vars>>)
    \/ (BuildMap /\ UNCHANGED <<par_vars, fit_vars>>)
    \/ (BuildFails /\ UNCHANGED <<par_vars, fit_vars>>)
    \/ (TextReplace /\ UNCHANGED <<par_vars, fit_vars>>)
    \/ (PlaceImage /\ UNCHANGED <<par_vars, fit_vars>>)
    \/ (NoImageText /\ UNCHANGED <<par_vars, fit_vars>>)
    \/ (PageDone /\ UNCHANGED <<par_vars, fit_vars>>)
    \/ (Save /\ UNCHANGED <<par_vars, fit_vars>>)

Spec == Init /\ [][Next]_vars

----------------------------------------------------------------------------
(* replace_text_in_paragraph applied to one paragraph and one dict *)

RunTexts == { <<>>, <<"x">>, <<"{", "{">>, <<"name", "_", "1">>, <<"}", "}">>,
              Tok("name", 1), Tok("unit", 1) }
ParValues == { <<>>, <<"v">>, Tok("unit", 1), Tok("name", 1) }

ParInit ==
    /\ par_pc = "ready"
    /\ par_runs \in UNION {[1..n -> RunTexts] : n \in 0..MaxRuns}
    /\ \E v1 \in ParValues, v2 \in ParValues :
          par_map = << <<Tok("name", 1), v1>>, <<Tok("unit", 1), v2>> >>
    /\ par_out = <<>>
    /\ CatalogIdle /\ FitIdle

ParApply ==
    /\ par_pc = "ready"
    /\ par_out' = replace_text_in_paragraph(par_runs, par_map)
    /\ par_pc' = "done"
    /\ UNCHANGED <<par_runs, par_map>>

ParNext == ParApply /\ UNCHANGED <<catalog_vars, fit_vars>>

SpecPar == ParInit /\ [][ParNext]_vars

----------------------------------------------------------------------------
(* the geometry of find_and_replace_image applied to one box and one image *)

FitInit ==
    /\ fit_pc = "ready"
    /\ box \in [left : {0, 3}, top : {0, 2}, width : 1..MaxDim, height : 1..MaxDim]
    /\ img_size \in [w : 1..MaxDim, h : 1..MaxDim]
    /\ fit = <<>>
    /\ CatalogIdle /\ ParIdle

FitApply ==
    /\ fit_pc = "ready"
    /\ fit' = FitPicture(box.left, box.top, box.width, box.height,
                         img_size.w, img_size.h)
    /\ fit_pc' = "done"
    /\ UNCHANGED <<box, img_size>>

FitNext == FitApply /\ UNCHANGED <<catalog_vars, par_vars>>

SpecFit == FitInit /\ [][FitNext]_vars

----------------------------------------------------------------------------
(* Properties *)

CeilDiv(a, b) == (a + b - 1) \div b

\* the records the p-th page (p = 0, 1, ...) stands for
PageRecords(p) ==
    SubSeq(products, p * PRODUCTS_PER_PAGE + 1,
           Min(p * PRODUCTS_PER_PAGE + PRODUCTS_PER_PAGE, Len(products)))

FieldToks == {Tok(FieldClasses[i], n) : i \in 1..Len(FieldClasses),
                                        n \in 1..PRODUCTS_PER_PAGE}
TextVocabulary == {SupplierTok} \cup FieldToks
ImageToks == {ImageTok(n) : n \in 1..PRODUCTS_PER_PAGE}

\* some paragraph of the slide shows the token
SlideShows(slide, tok) ==
    \E i \in 1..Len(slide) : \E k \in 1..Len(slide[i].paras) :
        Contains(Join(slide[i].paras[k]), tok)

\* the token is on the slide, but in no shape with a text frame
TokenOnlyOutsideTextFrames(slide, tok) ==
    /\ SlideShows(slide, tok)
    /\ Matches(slide, tok) = {}

\* C1: whenever a later page is about to duplicate slide 0, slide 0 still
\* is the template as loaded: no token resolved, no placeholder shape
\* removed or rewritten.
C1_CloneSourceIsPristine ==
    (pc = "select" /\ page_idx # 0) => slides[1] = template

\* C2: at the end of a run, the title and the product table of every
\* slide p are the template's with the replacement dict of page p's own
\* records applied.
C2_EachSlideShowsItsOwnPage ==
    pc = "done" =>
        \A p \in 0..(Len(slides) - 1) :
            SubSeq(slides[p + 1], 1, 2) =
            SubSeq(ReplaceTextInSlide(template,
                       PageReplacements(PageRecords(p), supplier_name)), 1, 2)

\* C3: a finished run over n >= 1 records holds ceil(n / K) slides, page p
\* was built from the records p*K+1 .. p*K+K of the sequence in order, and
\* only the last page is shorter than K.
C3_SlideCountAndChunks ==
    pc \in {"save", "done"} =>
        LET n == Len(products)
            np == CeilDiv(n, PRODUCTS_PER_PAGE)
        IN /\ Len(slides) = np
           /\ Len(pageLog) = np
           /\ \A p \in 0..(np - 1) :
                 /\ Len(pageLog[p + 1]) >= 1
                 /\ Len(pageLog[p + 1]) <= PRODUCTS_PER_PAGE
                 /\ p < np - 1 => Len(pageLog[p + 1]) = PRODUCTS_PER_PAGE
                 /\ \A k \in 1..Len(pageLog[p + 1]) :
                       pageLog[p + 1][k] = products[p * PRODUCTS_PER_PAGE + k]
           /\ Join(pageLog) = products

C3_Witness ==
    /\ pc = "done"
    /\ Len(products) = 5
    /\ Len(slides) = 3
    /\ Len(pageLog[1]) = 2 /\ Len(pageLog[2]) = 2 /\ Len(pageLog[3]) = 1

\* no value of the dict contains a token of the template vocabulary
ValuesTokenFree(d) ==
    \A i \in 1..Len(d) : \A t \in TextVocabulary \cup ImageToks :
        ~Contains(d[i][2], t)

\* C4: the replacement dict of every page has a key for the group-label
\* token and for every field-class token of every slot 1..K; on a page with
\* fewer than K records every field-class token and the image token of an
\* unfilled slot map to the empty string; and applied to the template, the
\* dict leaves no field-class token behind (a token that is part of a cell
\* value is data, so this part is stated for dicts whose values hold no
\* token).
C4_MapIsTotal ==
    pc \in {"text", "image"} =>
        /\ \A t \in TextVocabulary : HasKey(replacements, t)
        /\ \A n \in (Len(page_products) + 1)..PRODUCTS_PER_PAGE :
              /\ \A i \in 1..Len(FieldClasses) :
                    Lookup(replacements, Tok(FieldClasses[i], n)) = <<>>
              /\ HasKey(replacements, ImageTok(n))
              /\ Lookup(replacements, ImageTok(n)) = <<>>
        /\ ValuesTokenFree(replacements) =>
              LET resolved == ReplaceTextInSlide(template, replacements)
              IN \A t \in FieldToks : ~SlideShows(resolved, t)

C4_Witness ==
    /\ pc = "image"
    /\ Len(page_products) = 1
    /\ page_idx > 0
    /\ ValuesTokenFree(replacements)
    /\ Lookup(replacements, Tok("name", 2)) = <<>>
    /\ Lookup(replacements, Tok("name", 1)) # <<>>

\* the first key of the dict that the text starts with, 0 if none
KeyAt(text, repl) ==
    IF \E i \in 1..Len(repl) : /\ Len(repl[i][1]) <= Len(text)
                               /\ SubSeq(text, 1, Len(repl[i][1])) = repl[i][1]
    THEN CHOOSE i \in 1..Len(repl) :
            /\ Len(repl[i][1]) <= Len(text)
            /\ SubSeq(text, 1, Len(repl[i][1])) = repl[i][1]
            /\ \A j \in 1..(i - 1) :
                  ~(Len(repl[j][1]) <= Len(text)
                    /\ SubSeq(text, 1, Len(repl[j][1])) = repl[j][1])
    ELSE 0

RECURSIVE SinglePass(_, _)
\* one left-to-right, non-overlapping pass over the original string
SinglePass(text, repl) ==
    IF text = <<>> THEN <<>>
    ELSE LET i == KeyAt(text, repl)
         IN IF i = 0 THEN <<text[1]>> \o SinglePass(Tail(text), repl)
            ELSE repl[i][2]
                 \o SinglePass(SubSeq(text, Len(repl[i][1]) + 1, Len(text)), repl)

\* C5: the text of the paragraph after replace_text_in_paragraph is the
\* result of a single left-to-right, non-overlapping pass over the original
\* text; a token that is only part of a replacement value stays as it is.
C5_SinglePassNotRecursive ==
    par_pc = "done" => Join(par_out) = SinglePass(Join(par_runs), par_map)

\* C6: replace_text_in_paragraph keeps the number of runs, the runs joined
\* are the resolved text, a changed text sits whole in the first run with
\* every other run empty, and a paragraph without runs stays as it is.
C6_RunsKeptFirstRunCarriesText ==
    par_pc = "done" =>
        LET full_text == Join(par_runs)
            new_text == ResolveText(full_text, par_map)
        IN /\ Len(par_out) = Len(par_runs)
           /\ Join(par_out) = new_text
           /\ new_text # full_text =>
                 /\ Len(par_out) >= 1
                 /\ par_out[1] = new_text
                 /\ \A i \in 2..Len(par_out) : par_out[i] = <<>>
           /\ Len(par_runs) = 0 => par_out = par_runs

\* a token split over three runs has been replaced
C6_Witness ==
    /\ par_pc = "done"
    /\ par_runs = << <<"{", "{">>, <<"name", "_", "1">>, <<"}", "}">> >>
    /\ par_out = << <<"v">>, <<>>, <<>> >>

\* C7: find_and_replace_image never returns normally for a slot whose
\* image file exists while the slot's image token is on the slide only in a
\* table cell or other shape without a text frame.
C7_TableHostedTokenFails ==
    ~ /\ pc = "image"
      /\ placed.call = "find_and_replace_image"
      /\ placed.num = img_idx
      /\ placed.ret = FALSE
      /\ TokenOnlyOutsideTextFrames(slides[cur], ImageTok(placed.num))

\* C8: the document is saved at most once and only when every page has had
\* its text and image steps; a run over zero records ends without loading
\* the template and without a file; a run in which a page step raised has
\* written no file.
C8_SavedOnceAfterAllPages ==
    /\ saved <= 1
    /\ saved = 1 =>
          /\ pc = "done"
          /\ page_idx >= Len(products)
          /\ img_idx >= Len(page_products)
          /\ Len(pageLog) = CeilDiv(Len(products), PRODUCTS_PER_PAGE)
          /\ \A i \in 1..Len(products) : ~BuildRaises(products[i])
    /\ pc = "empty" => (saved = 0 /\ slides = <<>> /\ Len(products) = 0)
    /\ Len(products) = 0 => pc \in {"start", "empty"}
    /\ pc = "failed" => saved = 0
    /\ pc = "done" => saved = 1

\* a run that failed on a later page, after an earlier page was finished
C8_Witness ==
    /\ pc = "failed"
    /\ page_idx > 0
    /\ Len(slides) >= 2
    /\ saved = 0

C10_RemovesTheShapeEqualToToken ==
    [][(/\ pc = "image"
        /\ page_idx = 0
        /\ img_idx < Len(page_products)
        /\ ImagePath(page_products[img_idx + 1]) # NoFile
        /\ img_idx' = img_idx + 1)
       => LET tok == ImageTok(img_idx + 1)
              old == slides[cur]
              new == slides'[cur]
          IN \E i \in 1..Len(old) :
                /\ ShapeText(old[i]) = tok
                /\ \A j \in 1..Len(old) : j # i => ShapeText(old[j]) # tok
                /\ Len(new) = Len(old)
                /\ SubSeq(new, 1, Len(new) - 1) = RemoveAt(old, i)
                /\ new[Len(new)].kind = "pic"]_vars

====
